---------------------------- MODULE Spec2Model ----------------------------
(***************************************************************************)
(* A model of the logger factory of log-factory (src/src/log-facotry.ts,   *)
(* src/src/utils.ts): option resolution, path handling, construction of    *)
(* the transport list, directory creation, and the level filtering the     *)
(* winston engine applies to the transports the factory hands it.          *)
(*                                                                         *)
(* Conventions.                                                            *)
(*  - A JavaScript string whose characters matter (a path, a logger name)  *)
(*    is a sequence of one-character strings: "/d" is <<"/", "d">>.        *)
(*    Enumerated strings (levels, NODE_ENV values) are TLA+ strings.       *)
(*  - A JavaScript value that may be undefined is a sequence of length at  *)
(*    most one: Undefined is <<>>, the value v is <<v>>.                   *)
(*  - An option object is a function from the keys it has to such values;  *)
(*    a key that is absent is not in the DOMAIN, a key that is present     *)
(*    with the value undefined maps to Undefined.                          *)
(*  - Paths follow Node's POSIX implementation of the path module.         *)
(*  - A log message is a sequence of tokens, each a TLA+ string: the        *)
(*    punctuation of JSON, string and number literals, a blank, a word.     *)
(*    The text of the message is the concatenation of its tokens.           *)
(***************************************************************************)
EXTENDS Integers, Sequences, FiniteSets, TLC

VARIABLES
  nodeEnv,   \* process.env.NODE_ENV: Undefined when unset, else <<string>>
  options,   \* the option object the caller is assembling
  fs,        \* the directories that exist on disk
  out,       \* the outcome of the last factory call
  logged,    \* the levels at which the caller has logged one message each
  files,     \* per transport of the returned logger: the levels of the messages written
  message,   \* the text the caller logs, as a sequence of tokens
  console,   \* the lines the Console transports have written
  input,     \* the last call of a helper: the function and its argument
  output     \* what that call returned or threw, or how far it has come

vars == <<nodeEnv, options, fs, out, logged, files, message, console, input, output>>

(***************************************************************************)
(* Bounds of the model.                                                    *)
(***************************************************************************)
MaxOptions == 2     \* keys a caller puts in one option object
MaxMessages == 3    \* messages logged through one logger
MaxEntries == 5     \* directories and files on the disk when a logger is dropped
MaxLen == 3         \* characters of a string given to the path helpers
MaxSize == 40       \* the sizes given to the byte helpers are -MaxSize..MaxSize and two large ones

(***************************************************************************)
(* JavaScript values.                                                      *)
(***************************************************************************)
Undefined == <<>>

Some(v) == <<v>>

\* o.k for an object o: undefined when the key is absent
Get(o, k) == IF k \in DOMAIN o THEN o[k] ELSE Undefined

\* a ?? b
Nullish(a, b) == IF a # Undefined THEN a ELSE b

\* truthiness of an optional boolean
TruthyBool(x) == x = Some(TRUE)

\* truthiness of an optional string given as a character sequence
TruthyChars(x) == x # Undefined /\ Len(x[1]) > 0

\* truthiness of an optional enumerated string
TruthyStr(x) == x # Undefined /\ x[1] # ""

\* truthiness of an optional array (every array is truthy)
TruthyArray(x) == x # Undefined

\* { ...a, ...b }
Spread(a, b) ==
  [k \in (DOMAIN a) \cup (DOMAIN b) |-> IF k \in DOMAIN b THEN b[k] ELSE a[k]]

(***************************************************************************)
(* Node's path module (POSIX).                                             *)
(***************************************************************************)
Sep == "/"

RECURSIVE SplitAcc(_, _, _)
\* the segments of s between separators; cur is the segment being read
SplitAcc(s, cur, acc) ==
  IF s = <<>> THEN Append(acc, cur)
  ELSE IF Head(s) = Sep THEN SplitAcc(Tail(s), <<>>, Append(acc, cur))
       ELSE SplitAcc(Tail(s), Append(cur, Head(s)), acc)

Split(s) == SplitAcc(s, <<>>, <<>>)

RECURSIVE JoinSegs(_)
\* segments joined by the separator
JoinSegs(segs) ==
  IF segs = <<>> THEN <<>>
  ELSE IF Len(segs) = 1 THEN segs[1]
       ELSE segs[1] \o <<Sep>> \o JoinSegs(Tail(segs))

DotDot == <<".", ".">>

Dot == <<".">>

RECURSIVE NormSegs(_, _, _)
\* normalizeString on segments: res is the stack of segments kept so far
NormSegs(segs, res, allowAboveRoot) ==
  IF segs = <<>> THEN res
  ELSE LET s == Head(segs)
           rest == Tail(segs)
       IN IF s = <<>> \/ s = Dot THEN NormSegs(rest, res, allowAboveRoot)
          ELSE IF s = DotDot
               THEN IF res # <<>> /\ res[Len(res)] # DotDot
                    THEN NormSegs(rest, SubSeq(res, 1, Len(res) - 1), allowAboveRoot)
                    ELSE IF allowAboveRoot
                         THEN NormSegs(rest, Append(res, DotDot), allowAboveRoot)
                         ELSE NormSegs(rest, res, allowAboveRoot)
               ELSE NormSegs(rest, Append(res, s), allowAboveRoot)

normalizeString(p, allowAboveRoot) == JoinSegs(NormSegs(Split(p), <<>>, allowAboveRoot))

isAbsolute(p) == Len(p) > 0 /\ p[1] = Sep

\* the end of path.normalize: n is the normalized string of a non-empty path
normalized(n, abs, trailingSeparator) ==
  IF Len(n) = 0
  THEN IF abs THEN <<Sep>> ELSE IF trailingSeparator THEN <<".", Sep>> ELSE Dot
  ELSE (IF abs THEN <<Sep>> ELSE <<>>) \o n \o (IF trailingSeparator THEN <<Sep>> ELSE <<>>)

normalize(p) ==
  IF Len(p) = 0 THEN Dot
  ELSE normalized(normalizeString(p, p[1] # Sep), p[1] = Sep, p[Len(p)] = Sep)

RECURSIVE JoinNonEmpty(_)
\* the non-empty arguments of path.join, joined by the separator
JoinNonEmpty(parts) ==
  IF parts = <<>> THEN <<>>
  ELSE IF Len(Head(parts)) = 0 THEN JoinNonEmpty(Tail(parts))
       ELSE IF \A i \in 2..Len(parts) : Len(parts[i]) = 0 THEN Head(parts)
            ELSE Head(parts) \o <<Sep>> \o JoinNonEmpty(Tail(parts))

\* path.join(...parts): normalize('') is '.'
join(parts) == normalize(JoinNonEmpty(parts))

\* path.resolve(from, to) for an absolute from
resolve(from, to) ==
  <<Sep>> \o normalizeString(IF isAbsolute(to) THEN to
                             ELSE IF Len(to) = 0 THEN from
                                  ELSE from \o <<Sep>> \o to,
                             FALSE)

\* process.cwd()
Cwd == <<"/", "w">>

(***************************************************************************)
(* src/src/utils.ts                                                        *)
(***************************************************************************)
\* const safePath = path.isAbsolute(normalizedPath) ? normalizedPath : path.resolve(...)
safePath(normalizedPath) ==
  IF isAbsolute(normalizedPath) THEN normalizedPath
  ELSE resolve(Cwd, normalizedPath)

\* createSafePath without the call of path.normalize
createSafePathNoNormalize(filePath) == safePath(filePath)

createSafePath(filePath) == safePath(normalize(filePath))

joinSafePaths(paths) == createSafePath(join(paths))

getDefaultLogPath == joinSafePaths(<<createSafePath(Cwd), <<"l", "o", "g", "s">>>>)

createSafePathWithSuffix(basePath, suffix) == createSafePath(basePath \o suffix)

\* createBytes with <= for <: zero is refused
createBytesRefusesZero(bytes) ==
  IF bytes <= 0 THEN [ok |-> FALSE, value |-> 0, error |-> "Bytes cannot be negative"]
  ELSE [ok |-> TRUE, value |-> bytes, error |-> ""]

\* the outcome of createBytes: the number, or the error it throws
createBytes(bytes) ==
  IF bytes < 0 THEN [ok |-> FALSE, value |-> 0, error |-> "Bytes cannot be negative"]
  ELSE [ok |-> TRUE, value |-> bytes, error |-> ""]

\* MB with decimal megabytes
MBDecimal(size) == createBytes(size * 1000 * 1000)

MB(size) == createBytes(size * 1024 * 1024)


(***************************************************************************)
(* src/src/log-facotry.ts: the level table and the environment defaults.   *)
(***************************************************************************)
\* config.levels
levels ==
  [error |-> 0, debug |-> 1, warn |-> 2, data |-> 3, info |-> 4, verbose |-> 5, silly |-> 6]

LogLevel == DOMAIN levels

\* the keys of LoggerOptions
OptionKeys ==
  {"logName", "level", "logDirectory", "enableFileLogging", "maxFileSize", "maxFiles",
   "separateErrorLog", "separateWarnLog", "useDailyRotation", "enableConsoleLogging",
   "prettyPrint", "colorize", "timestampFormat", "locale", "silent", "handleExceptions",
   "handleRejections", "customTransports", "customFormat"}

defaultOptions ==
  [development |->
     [level |-> Some("debug"),
      enableConsoleLogging |-> Some(TRUE),
      enableFileLogging |-> Some(TRUE),
      prettyPrint |-> Some(TRUE),
      colorize |-> Some(TRUE),
      maxFileSize |-> Some(MB(5).value),
      maxFiles |-> Some(5),
      separateErrorLog |-> Some(TRUE),
      separateWarnLog |-> Some(TRUE),
      useDailyRotation |-> Some(FALSE)],
   production |->
     [level |-> Some("info"),
      enableConsoleLogging |-> Some(FALSE),
      enableFileLogging |-> Some(TRUE),
      prettyPrint |-> Some(FALSE),
      colorize |-> Some(FALSE),
      maxFileSize |-> Some(MB(10).value),
      maxFiles |-> Some(10),
      separateErrorLog |-> Some(TRUE),
      separateWarnLog |-> Some(FALSE),
      useDailyRotation |-> Some(TRUE)],
   test |->
     [level |-> Some("debug"),
      enableConsoleLogging |-> Some(FALSE),
      enableFileLogging |-> Some(TRUE),
      prettyPrint |-> Some(FALSE),
      colorize |-> Some(FALSE),
      maxFileSize |-> Some(MB(1).value),
      maxFiles |-> Some(2),
      separateErrorLog |-> Some(TRUE),
      separateWarnLog |-> Some(FALSE),
      useDailyRotation |-> Some(FALSE)]]

Environment == {"development", "production", "test"}

isValidEnvironment(env) == env \in Environment

(***************************************************************************)
(* src/src/log-facotry.ts: prettyConsoleFormat, with JSON.parse,           *)
(* Object.entries and JSON.stringify on the objects the tokens can spell:  *)
(* string keys, string and number values, blanks between the tokens.       *)
(***************************************************************************)
RECURSIVE Text(_)
\* the text of a message
Text(msg) == IF msg = <<>> THEN "" ELSE Head(msg) \o Text(Tail(msg))

\* string literals
StringTokens == {"\"test\"", "\"value\"", "\"a\"", "\"1\""}

\* number literals
NumberTokens == {"1", "2", "1.0"}

\* message.startsWith('{')
startsWithBrace(msg) == msg # <<>> /\ Head(msg) = "{"

RECURSIVE ParseMembers(_, _)
\* JSON.parse after '{' or ',': the members up to the closing '}' as <<key, value>>
\* pairs in the order of the text, or a SyntaxError
ParseMembers(toks, acc) ==
  IF /\ Len(toks) >= 4
     /\ toks[1] \in StringTokens
     /\ toks[2] = ":"
     /\ toks[3] \in StringTokens \cup NumberTokens
  THEN IF toks[4] = "}"
       THEN [ok |-> Len(toks) = 4, members |-> Append(acc, <<toks[1], toks[3]>>)]
       ELSE IF toks[4] = ","
            THEN ParseMembers(SubSeq(toks, 5, Len(toks)), Append(acc, <<toks[1], toks[3]>>))
            ELSE [ok |-> FALSE, members |-> <<>>]
  ELSE [ok |-> FALSE, members |-> <<>>]

\* JSON.parse of the text of an object: blanks between tokens are skipped
JSONparse(msg) ==
  LET toks == SelectSeq(msg, LAMBDA t : t # " ")
  IN IF toks = <<>> \/ Head(toks) # "{" THEN [ok |-> FALSE, members |-> <<>>]
     ELSE IF Len(toks) = 2 /\ toks[2] = "}" THEN [ok |-> TRUE, members |-> <<>>]
          ELSE ParseMembers(Tail(toks), <<>>)

RECURSIVE LastValue(_, _)
\* the value a key ends up with: that of its last member
LastValue(members, key) ==
  IF members[Len(members)][1] = key THEN members[Len(members)][2]
  ELSE LastValue(SubSeq(members, 1, Len(members) - 1), key)

RECURSIVE InsertionOrder(_, _)
\* the keys in the order they were first set
InsertionOrder(members, seen) ==
  IF members = <<>> THEN <<>>
  ELSE IF Head(members)[1] \in seen THEN InsertionOrder(Tail(members), seen)
       ELSE <<Head(members)[1]>>
            \o InsertionOrder(Tail(members), seen \cup {Head(members)[1]})

\* whether a key is an array index ("1"), which an object lists before its other keys
isArrayIndex(key) == key = "\"1\""

\* Object.entries(parsed): array indices first, then the other keys as inserted
ObjectEntries(members) ==
  LET keys == InsertionOrder(members, {})
      ordered == SelectSeq(keys, isArrayIndex) \o SelectSeq(keys, LAMBDA k : ~isArrayIndex(k))
  IN [i \in 1..Len(ordered) |-> <<ordered[i], LastValue(members, ordered[i])>>]

\* JSON.stringify of a parsed key or value: a number is written in its shortest form
JSONstringify(tok) == IF tok = "1.0" THEN "1" ELSE tok

RECURSIVE JoinEntries(_)
\* entries.map(([key, value]) => `${key} such ${value}`).join(', ')
JoinEntries(entries) ==
  IF entries = <<>> THEN ""
  ELSE JSONstringify(Head(entries)[1]) \o " such " \o JSONstringify(Head(entries)[2])
       \o (IF Len(entries) > 1 THEN ", " \o JoinEntries(Tail(entries)) ELSE "")

\* prettyConsoleFormat without the startsWith test: whatever parses is rewritten
prettyConsoleFormatNoGuard(msg) ==
  IF JSONparse(msg).ok
  THEN "< wow " \o JoinEntries(ObjectEntries(JSONparse(msg).members)) \o " >"
  ELSE Text(msg)

\* prettyConsoleFormat: the message it leaves in info.message
prettyConsoleFormat(msg) ==
  IF startsWithBrace(msg) /\ JSONparse(msg).ok
  THEN "< wow " \o JoinEntries(ObjectEntries(JSONparse(msg).members)) \o " >"
  ELSE Text(msg)

(***************************************************************************)
(* Formats and transports, as the option records handed to the engine's    *)
(* constructors.  Every record has the same fields; a field the            *)
(* constructor is not given is Undefined.                                  *)
(***************************************************************************)
Format(name, pretty, color, loc) ==
  [name |-> name, prettyPrint |-> pretty, colorize |-> color, locale |-> loc]

\* winston.format.simple()
simpleFormat == Format("simple", FALSE, FALSE, "")

\* a caller's customFormat: opaque to the factory
CustomFormat == Format("custom", FALSE, FALSE, "")

Transport(kind, id, format, filename, level, maxsize, maxFiles, datePattern) ==
  [kind |-> kind, id |-> id, format |-> format, filename |-> filename, level |-> level,
   maxsize |-> maxsize, maxFiles |-> maxFiles, datePattern |-> datePattern,
   zippedArchive |-> kind \in {"File", "DailyRotateFile"},
   tailable |-> kind \in {"File", "DailyRotateFile"}]

\* a caller's custom transport: opaque to the factory
CustomTransport(id) ==
  Transport("Custom", id, Undefined, Undefined, Undefined, Undefined, Undefined, Undefined)

\* LogFileNameSuffix
SuffixAll == <<"-", "A", "l", "l", ".", "l", "o", "g">>

SuffixError == <<"-", "e", "r", "r", "o", "r", ".", "l", "o", "g">>

SuffixWarn == <<"-", "w", "a", "r", "n", ".", "l", "o", "g">>

SuffixDate == <<"-", "%", "D", "A", "T", "E", "%", ".", "l", "o", "g">>

DefaultLogName == <<"a", "p", "p">>

(***************************************************************************)
(* The file system: a function from the absolute normalized paths that     *)
(* exist (written without a trailing separator) to what is there, a        *)
(* directory or a regular file, and its permission bits.  The files and    *)
(* directories the engine's transports create for themselves are not on    *)
(* this disk.                                                              *)
(***************************************************************************)
Directory(mode) == [dir |-> TRUE, mode |-> mode]

RegularFile(mode) == [dir |-> FALSE, mode |-> mode]

\* the directory a path names
DirOf(p) == IF Len(p) > 1 /\ p[Len(p)] = Sep THEN SubSeq(p, 1, Len(p) - 1) ELSE p

\* fs.existsSync: true of whatever is at the path, a directory or not
existsSync(disk, p) == DirOf(p) \in DOMAIN disk

\* the directory of the given segments and all its ancestors
Prefixes(segs) ==
  {<<Sep>>} \cup {<<Sep>> \o JoinSegs(SubSeq(segs, 1, i)) : i \in 1..Len(segs)}

\* whether fs.mkdirSync(p, { recursive: true }) throws because something on the
\* way to p is not a directory
mkdirBlocked(disk, p) ==
  \E d \in Prefixes(NormSegs(Split(p), <<>>, FALSE)) : d \in DOMAIN disk /\ ~disk[d].dir

\* fs.mkdirSync(p, { recursive: true, mode }): every directory it creates gets
\* the mode, what exists stays as it is
mkdirSync(disk, p, mode) ==
  [d \in (DOMAIN disk) \cup Prefixes(NormSegs(Split(p), <<>>, FALSE)) |->
     IF d \in DOMAIN disk THEN disk[d] ELSE Directory(mode)]

(***************************************************************************)
(* src/src/log-facotry.ts: createLogger.                                   *)
(***************************************************************************)
\* which factory function the caller called, and with which environment argument
CreateLoggerCall == [name |-> "createLogger", env |-> Undefined]

\* what a factory call leaves behind when it throws: the error, the numbers of
\* console.warn, console.error and fs.mkdirSync calls it made, and the disk
Threw(error, ne, opts, warnings, errors, mkdirs, disk) ==
  [status |-> "threw", call |-> CreateLoggerCall, error |-> error,
   warnings |-> warnings, errors |-> errors, mkdirs |-> mkdirs, env |-> ne, options |-> opts, finalOptions |-> <<>>, logDir |-> <<>>,
   transports |-> <<>>, level |-> "", silent |-> Undefined,
   handleExceptions |-> Undefined, handleRejections |-> Undefined,
   format |-> simpleFormat, disk |-> disk]

\* the message of the error fs.mkdirSync throws
MkdirError == "EACCES: permission denied, mkdir"

\* the message of the error fs.mkdirSync throws when a file is in the way
NotDirError == "ENOTDIR: not a directory, mkdir"

\* safeLogDirectory with the caller's string taken as it is, not made a safe path
safeLogDirectoryRaw(opts) ==
  IF TruthyChars(Get(opts, "logDirectory"))
  THEN opts["logDirectory"][1]
  ELSE getDefaultLogPath

\* const safeLogDirectory = options.logDirectory ? createSafePath(...) : getDefaultLogPath()
safeLogDirectory(opts) ==
  IF TruthyChars(Get(opts, "logDirectory"))
  THEN createSafePath(opts["logDirectory"][1])
  ELSE getDefaultLogPath

\* finalOptions with the two spreads in the wrong order: the defaults win
FinalOptionsDefaultsWin(defaultEnvOptions, opts) ==
  Spread(Spread(opts, defaultEnvOptions),
         [logName |-> Nullish(Get(opts, "logName"), Some(DefaultLogName)),
             logDirectory |-> Some(safeLogDirectory(opts)),
             maxFileSize |-> Nullish(Get(opts, "maxFileSize"),
                                     Nullish(Get(defaultEnvOptions, "maxFileSize"),
                                             Some(MB(5).value)))])

\* a || b for optional numbers
OrNumber(a, b) == IF a # Undefined /\ a[1] # 0 THEN a ELSE b

\* finalOptions with || in place of ?? for maxFileSize: 0 falls to the default
FinalOptionsOr(defaultEnvOptions, opts) ==
  Spread(Spread(defaultEnvOptions, opts),
         [logName |-> Nullish(Get(opts, "logName"), Some(DefaultLogName)),
          logDirectory |-> Some(safeLogDirectory(opts)),
          maxFileSize |-> OrNumber(Get(opts, "maxFileSize"),
                                   OrNumber(Get(defaultEnvOptions, "maxFileSize"),
                                            Some(MB(5).value)))])

\* const finalOptions = { ...defaultEnvOptions, ...options, logName, logDirectory, maxFileSize }
FinalOptions(defaultEnvOptions, opts) ==
  Spread(Spread(defaultEnvOptions, opts),
         [logName |-> Nullish(Get(opts, "logName"), Some(DefaultLogName)),
          logDirectory |-> Some(safeLogDirectory(opts)),
          maxFileSize |-> Nullish(Get(opts, "maxFileSize"),
                                  Nullish(Get(defaultEnvOptions, "maxFileSize"),
                                          Some(MB(5).value)))])

\* const fileFormat: the timestamp in the locale, then "<timestamp> <LEVEL>: <message>"
fileFormat(finalOptions) ==
  Format("file", FALSE, FALSE,
         IF TruthyStr(Get(finalOptions, "locale")) THEN finalOptions["locale"][1]
         ELSE "en-US")

\* const consoleFormat
consoleFormat(finalOptions) ==
  Format("console", TruthyBool(Get(finalOptions, "prettyPrint")),
         TruthyBool(Get(finalOptions, "colorize")), "")

\* const createLogPath = (suffix) => ...
createLogPath(logDir, logName, suffix) ==
  createSafePathWithSuffix(joinSafePaths(<<logDir, logName>>), suffix)

\* a file transport: { ...baseFileOptions, filename, level, datePattern }
FileTransport(finalOptions, logDir, kind, suffix, level, datePattern) ==
  Transport(kind, "", Some(fileFormat(finalOptions)),
            Some(createLogPath(logDir, finalOptions["logName"][1], suffix)), level,
            Get(finalOptions, "maxFileSize"), Get(finalOptions, "maxFiles"), datePattern)

\* if (enableConsoleLogging) transports.push(new winston.transports.Console(...))
ConsoleTransports(finalOptions) ==
  IF TruthyBool(Get(finalOptions, "enableConsoleLogging"))
  THEN <<Transport("Console", "",
                   Some(IF TruthyStr(Get(finalOptions, "customFormat"))
                        THEN CustomFormat ELSE consoleFormat(finalOptions)),
                   Undefined, Undefined, Undefined, Undefined, Undefined)>>
  ELSE <<>>

\* the main file transport with the else dropped: rotation adds to the combined file
MainFileTransportsBoth(finalOptions, logDir) ==
  (IF TruthyBool(Get(finalOptions, "useDailyRotation"))
   THEN <<FileTransport(finalOptions, logDir, "DailyRotateFile", SuffixDate, Undefined,
                        Some("YYYY-MM-DD"))>>
   ELSE <<>>)
  \o <<FileTransport(finalOptions, logDir, "File", SuffixAll, Undefined, Undefined)>>

\* if (useDailyRotation) push DailyRotateFile else push File
MainFileTransports(finalOptions, logDir) ==
  IF TruthyBool(Get(finalOptions, "useDailyRotation"))
  THEN <<FileTransport(finalOptions, logDir, "DailyRotateFile", SuffixDate, Undefined,
                       Some("YYYY-MM-DD"))>>
  ELSE <<FileTransport(finalOptions, logDir, "File", SuffixAll, Undefined, Undefined)>>

\* if (separateErrorLog) push File with level 'error'
ErrorFileTransports(finalOptions, logDir) ==
  IF TruthyBool(Get(finalOptions, "separateErrorLog"))
  THEN <<FileTransport(finalOptions, logDir, "File", SuffixError, Some("error"), Undefined)>>
  ELSE <<>>

\* if (separateWarnLog) push File with level 'warn'
WarnFileTransports(finalOptions, logDir) ==
  IF TruthyBool(Get(finalOptions, "separateWarnLog"))
  THEN <<FileTransport(finalOptions, logDir, "File", SuffixWarn, Some("warn"), Undefined)>>
  ELSE <<>>

\* the block with the separate files left outside it: they do not need the switch
FileTransportsSeparateOutside(finalOptions, logDir) ==
  (IF TruthyBool(Get(finalOptions, "enableFileLogging"))
   THEN MainFileTransports(finalOptions, logDir)
   ELSE <<>>)
  \o ErrorFileTransports(finalOptions, logDir)
  \o WarnFileTransports(finalOptions, logDir)

\* if (enableFileLogging) { ... }
FileTransports(finalOptions, logDir) ==
  IF TruthyBool(Get(finalOptions, "enableFileLogging"))
  THEN MainFileTransports(finalOptions, logDir)
       \o ErrorFileTransports(finalOptions, logDir)
       \o WarnFileTransports(finalOptions, logDir)
  ELSE <<>>

\* the custom transports pushed without the spread: only the first arrives
CustomTransportsFirstOnly(finalOptions) ==
  IF TruthyArray(Get(finalOptions, "customTransports"))
     /\ Len(finalOptions["customTransports"][1]) > 0
  THEN <<finalOptions["customTransports"][1][1]>>
  ELSE <<>>

\* if (customTransports) transports.push(...customTransports)
CustomTransports(finalOptions) ==
  IF TruthyArray(Get(finalOptions, "customTransports"))
  THEN finalOptions["customTransports"][1]
  ELSE <<>>

\* the transports with the custom ones put first
TransportsCustomFirst(finalOptions, logDir) ==
  CustomTransports(finalOptions)
  \o ConsoleTransports(finalOptions)
  \o FileTransports(finalOptions, logDir)

\* const transports = [] and the pushes onto it, in the order of the code
Transports(finalOptions, logDir) ==
  ConsoleTransports(finalOptions)
  \o FileTransports(finalOptions, logDir)
  \o CustomTransports(finalOptions)

\* winston.createLogger without the silent flag
LoggerNoSilent(finalOptions, logDir, ne, opts, warnings, mkdirs, disk) ==
  [status |-> "returned", call |-> CreateLoggerCall, error |-> "",
   warnings |-> warnings, errors |-> 0, mkdirs |-> mkdirs, env |-> ne, options |-> opts, finalOptions |-> finalOptions,
   logDir |-> logDir,
   transports |-> Transports(finalOptions, logDir),
   level |-> IF TruthyStr(Get(finalOptions, "level")) THEN finalOptions["level"][1]
             ELSE "info",
   silent |-> Undefined,
   handleExceptions |-> Get(finalOptions, "handleExceptions"),
   handleRejections |-> Get(finalOptions, "handleRejections"),
   format |-> IF TruthyStr(Get(finalOptions, "customFormat"))
              THEN CustomFormat ELSE simpleFormat,
   disk |-> disk]

\* winston.createLogger({ levels, level, silent, ..., transports, format })
Logger(finalOptions, logDir, ne, opts, warnings, mkdirs, disk) ==
  [status |-> "returned", call |-> CreateLoggerCall, error |-> "",
   warnings |-> warnings, errors |-> 0, mkdirs |-> mkdirs, env |-> ne, options |-> opts, finalOptions |-> finalOptions,
   logDir |-> logDir,
   transports |-> Transports(finalOptions, logDir),
   level |-> IF TruthyStr(Get(finalOptions, "level")) THEN finalOptions["level"][1]
             ELSE "info",
   silent |-> Get(finalOptions, "silent"),
   handleExceptions |-> Get(finalOptions, "handleExceptions"),
   handleRejections |-> Get(finalOptions, "handleRejections"),
   format |-> IF TruthyStr(Get(finalOptions, "customFormat"))
              THEN CustomFormat ELSE simpleFormat,
   disk |-> disk]

\* createLogger with a catch that logs the error and goes on
EnsureDirectorySwallow(finalOptions, logDir, ne, opts, warnings, disk, mkdirFails) ==
  IF existsSync(disk, logDir)
  THEN Logger(finalOptions, logDir, ne, opts, warnings, 0, disk)
  ELSE IF mkdirBlocked(disk, logDir) \/ mkdirFails
       THEN [Logger(finalOptions, logDir, ne, opts, warnings, 1, disk) EXCEPT !.errors = 1]
       ELSE Logger(finalOptions, logDir, ne, opts, warnings, 1,
                   mkdirSync(disk, logDir, "0700"))

\* createLogger from the directory check on.
\* mkdirFails: whether fs.mkdirSync throws for a reason of its own (permissions,
\* a full disk), should it be called.
EnsureDirectory(finalOptions, logDir, ne, opts, warnings, disk, mkdirFails) ==
  IF existsSync(disk, logDir)
  THEN Logger(finalOptions, logDir, ne, opts, warnings, 0, disk)
  ELSE IF mkdirBlocked(disk, logDir)
       THEN Threw(NotDirError, ne, opts, warnings, 1, 1, disk)
       ELSE IF mkdirFails
            THEN Threw(MkdirError, ne, opts, warnings, 1, 1, disk)
            ELSE Logger(finalOptions, logDir, ne, opts, warnings, 1,
                        mkdirSync(disk, logDir, "0700"))

\* const logDir = joinSafePaths(logDirectory, logName)
LogDir(finalOptions) ==
  joinSafePaths(<<finalOptions["logDirectory"][1], finalOptions["logName"][1]>>)

\* createLogger from the resolved options on
Resolved(finalOptions, ne, opts, warnings, disk, mkdirFails) ==
  EnsureDirectory(finalOptions, LogDir(finalOptions), ne, opts, warnings, disk, mkdirFails)

\* createLogger from the lookup of the environment defaults on
Build(env, ne, opts, warnings, disk, mkdirFails) ==
  Resolved(FinalOptions(defaultOptions[env], opts), ne, opts, warnings, disk, mkdirFails)

\* createLogger with the directory made before the environment is validated
createLoggerMkdirFirst(ne, opts, disk, mkdirFails) ==
  LET env == IF TruthyStr(ne) THEN ne[1] ELSE "development"
      warnings == IF ~TruthyStr(ne) THEN 1 ELSE 0
      dir == joinSafePaths(<<safeLogDirectory(opts),
                             Nullish(Get(opts, "logName"), Some(DefaultLogName))[1]>>)
  IN IF ~isValidEnvironment(env)
     THEN Threw("Invalid environment: " \o env, ne, opts, warnings, 0, 1,
                IF existsSync(disk, dir) THEN disk ELSE mkdirSync(disk, dir, "0700"))
     ELSE Build(env, ne, opts, warnings, disk, mkdirFails)

\* createLogger with an error message that leaves the value out
createLoggerBareMessage(ne, opts, disk, mkdirFails) ==
  LET env == IF TruthyStr(ne) THEN ne[1] ELSE "development"
      warnings == IF ~TruthyStr(ne) THEN 1 ELSE 0
  IN IF ~isValidEnvironment(env)
     THEN Threw("Invalid environment", ne, opts, warnings, 0, 0, disk)
     ELSE Build(env, ne, opts, warnings, disk, mkdirFails)

\* createLogger with the environment read once, by the first call, and kept
createLoggerEnvOnce(ne, opts, disk, mkdirFails) ==
  LET first == IF out.status = "none" THEN ne ELSE out.env
      env == IF TruthyStr(first) THEN first[1] ELSE "development"
      warnings == IF ~TruthyStr(first) THEN 1 ELSE 0
  IN IF ~isValidEnvironment(env)
     THEN Threw("Invalid environment: " \o env, first, opts, warnings, 0, 0, disk)
     ELSE Build(env, first, opts, warnings, disk, mkdirFails)

\* createLogger as first defined in the file: warns when NODE_ENV is not set
createLogger(ne, opts, disk, mkdirFails) ==
  LET env == IF TruthyStr(ne) THEN ne[1] ELSE "development"
      warnings == IF ~TruthyStr(ne) THEN 1 ELSE 0
  IN IF ~isValidEnvironment(env)
     THEN Threw("Invalid environment: " \o env, ne, opts, warnings, 0, 0, disk)
     ELSE Build(env, ne, opts, warnings, disk, mkdirFails)

\* createLogger as defined the second time in the file: no warning
createLoggerSecond(ne, opts, disk, mkdirFails) ==
  LET env == IF TruthyStr(ne) THEN ne[1] ELSE "development"
  IN IF ~isValidEnvironment(env)
     THEN Threw("Invalid environment: " \o env, ne, opts, 0, 0, 0, disk)
     ELSE Build(env, ne, opts, 0, disk, mkdirFails)

\* createSimpleLogger that leaves the defaults to createLogger
createSimpleLoggerNoOptions(env, ne, disk, mkdirFails) ==
  [createLogger(ne, <<>>, disk, mkdirFails)
     EXCEPT !.call = [name |-> "createSimpleLogger", env |-> env]]

\* createSimpleLogger(env), env undefined when the caller gives none
createSimpleLogger(env, ne, disk, mkdirFails) ==
  [createLogger(ne, defaultOptions[IF env = Undefined THEN "development" ELSE env[1]],
                disk, mkdirFails)
     EXCEPT !.call = [name |-> "createSimpleLogger", env |-> env]]

(***************************************************************************)
(* The engine (winston) as the factory uses it.  A logger that is silent   *)
(* writes nothing.  Otherwise every transport decides for itself: its      *)
(* threshold is its own level when it was given one and the logger's level *)
(* otherwise, and it writes a message when the message's number in the     *)
(* level table is not greater than the threshold's.                        *)
(***************************************************************************)
\* the level a transport of the logger filters by
Threshold(logger, t) == IF TruthyStr(t.level) THEN t.level[1] ELSE logger.level

\* whether transport t of the logger writes a message logged at lvl
Writes(logger, t, lvl) ==
  /\ ~TruthyBool(logger.silent)
  /\ levels[Threshold(logger, t)] >= levels[lvl]

\* what a Console transport writes for a message logged at lvl: the text its
\* format leaves in info.message, and whether the format colours it
ConsoleLine(format, lvl, msg) ==
  [level |-> lvl,
   format |-> format.name,
   text |-> IF format.name = "console" /\ format.prettyPrint THEN prettyConsoleFormat(msg)
            ELSE Text(msg),
   colored |-> format.name = "console" /\ format.colorize]

(***************************************************************************)
(* What callers do.                                                        *)
(***************************************************************************)
\* values of process.env.NODE_ENV
NodeEnvValues ==
  {Undefined, Some(""), Some("development"), Some("production"), Some("test"),
   Some("staging")}

Booleans == {Undefined, Some(TRUE), Some(FALSE)}

\* the arguments of createSimpleLogger
EnvArguments == {Undefined} \cup {Some(e) : e \in Environment}

\* the values callers give the options, by option
OptionValueSets ==
  [k \in OptionKeys |->
     CASE k = "logName" ->
            {Undefined, Some(<<>>), Some(<<"a">>), Some(DotDot), Some(<<"b", "/", "c">>)}
       [] k = "logDirectory" ->
            {Undefined, Some(<<>>), Some(<<"/", "d">>), Some(<<"r">>)}
       [] k = "level" -> {Undefined, Some("error"), Some("info")}
       [] k = "maxFileSize" -> {Undefined, Some(0), Some(MB(1).value), Some(-1)}
       [] k = "maxFiles" -> {Undefined, Some(3)}
       [] k = "timestampFormat" -> {Undefined, Some("HH:mm")}
       [] k = "locale" -> {Undefined, Some("fr-FR")}
       [] k = "customFormat" -> {Undefined, Some("custom")}
       [] k = "customTransports" ->
            {Undefined, Some(<<>>), Some(<<CustomTransport("c1"), CustomTransport("c2")>>),
             Some(<<CustomTransport("c2"), CustomTransport("c1")>>)}
       [] OTHER -> Booleans]

\* the values a caller gives an option
OptionValues(k) == OptionValueSets[k]

\* no factory call yet, or the logger was dropped
NoCall == [Threw("", Undefined, <<>>, 0, 0, 0, <<>>) EXCEPT !.status = "none"]

\* no helper was called yet
NoInput == [fn |-> "none", arg |-> <<>>]

InitialDisk == [d \in {<<Sep>>, Cwd} |-> Directory("0755")]

Init ==
  /\ nodeEnv = Undefined
  /\ options = <<>>
  /\ fs = InitialDisk
  /\ out = NoCall
  /\ logged = {}
  /\ files = <<>>
  /\ message = <<>>
  /\ console = {}
  /\ input = NoInput
  /\ output = NoInput

\* process.env.NODE_ENV = e (or delete process.env.NODE_ENV)
SetEnv(e) ==
  /\ out.status = "none"
  /\ nodeEnv # e
  /\ nodeEnv' = e
  /\ UNCHANGED <<options, fs, out, logged, files, message, console, input, output>>

\* the caller writes one more key into the option object
SetOption(k, v) ==
  /\ out.status = "none"
  /\ k \notin DOMAIN options
  /\ Cardinality(DOMAIN options) < MaxOptions
  /\ options' = Spread(options, [x \in {k} |-> v])
  /\ UNCHANGED <<nodeEnv, fs, out, logged, files, message, console, input, output>>

\* const logger = createLogger(options)
CallCreateLogger(mkdirFails) ==
  /\ out.status = "none"
  /\ out' = createLogger(nodeEnv, options, fs, mkdirFails)
  /\ fs' = out'.disk
  /\ files' = [i \in 1..Len(out'.transports) |-> {}]
  /\ UNCHANGED <<nodeEnv, options, logged, message, console, input, output>>

\* the same call, served by the second definition of createLogger in the file
CallCreateLoggerSecond(mkdirFails) ==
  /\ out.status = "none"
  /\ out' = createLoggerSecond(nodeEnv, options, fs, mkdirFails)
  /\ fs' = out'.disk
  /\ files' = [i \in 1..Len(out'.transports) |-> {}]
  /\ UNCHANGED <<nodeEnv, options, logged, message, console, input, output>>

\* const logger = createSimpleLogger(env)
CallCreateSimpleLogger(env, mkdirFails) ==
  /\ out.status = "none"
  /\ options = <<>>
  /\ out' = createSimpleLogger(env, nodeEnv, fs, mkdirFails)
  /\ fs' = out'.disk
  /\ files' = [i \in 1..Len(out'.transports) |-> {}]
  /\ UNCHANGED <<nodeEnv, options, logged, message, console, input, output>>

\* logger[lvl](message)
Log(lvl) ==
  /\ out.status = "returned"
  /\ lvl \notin logged
  /\ Cardinality(logged) < MaxMessages
  /\ logged' = logged \cup {lvl}
  /\ files' = [i \in DOMAIN files |->
                 IF Writes(out, out.transports[i], lvl) THEN files[i] \cup {lvl}
                 ELSE files[i]]
  /\ console' = console \cup
                  {ConsoleLine(out.transports[i].format[1], lvl, message) :
                     i \in {j \in DOMAIN files : /\ out.transports[j].kind = "Console"
                                                  /\ Writes(out, out.transports[j], lvl)}}
  /\ UNCHANGED <<nodeEnv, options, fs, out, message, input, output>>

\* the logger is dropped and the log directories are removed
Reset ==
  /\ out.status # "none"
  /\ nodeEnv' = Undefined
  /\ options' = <<>>
  /\ fs' = InitialDisk
  /\ out' = NoCall
  /\ logged' = {}
  /\ files' = <<>>
  /\ message' = <<>>
  /\ console' = {}
  /\ UNCHANGED <<input, output>>

Next ==
  \/ \E e \in NodeEnvValues : SetEnv(e)
  \/ \E k \in OptionKeys : \E v \in OptionValues(k) : SetOption(k, v)
  \/ \E mkdirFails \in BOOLEAN : CallCreateLogger(mkdirFails)
  \/ \E mkdirFails \in BOOLEAN : CallCreateLoggerSecond(mkdirFails)
  \/ \E env \in EnvArguments : \E mkdirFails \in BOOLEAN :
       CallCreateSimpleLogger(env, mkdirFails)
  \/ Reset

Spec == Init /\ [][Next]_vars

(***************************************************************************)
(* Logging through the returned logger: the caller sets the options that   *)
(* decide which transports are built and what they filter by, creates a    *)
(* logger and logs messages at various levels.                             *)
(***************************************************************************)
LogKeys ==
  {"level", "enableFileLogging", "enableConsoleLogging", "separateErrorLog",
   "separateWarnLog", "useDailyRotation", "silent"}

SetLogOption(k, v) == k \in LogKeys /\ SetOption(k, v)

NextLog ==
  \/ \E e \in NodeEnvValues : SetEnv(e)
  \/ \E k \in OptionKeys : \E v \in OptionValues(k) : SetLogOption(k, v)
  \/ \E mkdirFails \in BOOLEAN : CallCreateLogger(mkdirFails)
  \/ \E lvl \in LogLevel : Log(lvl)
  \/ Reset

SpecLog == Init /\ [][NextLog]_vars

(***************************************************************************)
(* The transport list under every combination of the options that decide   *)
(* it: the caller may set all of them in one option object.                *)
(***************************************************************************)
SinkKeys ==
  {"enableConsoleLogging", "enableFileLogging", "separateErrorLog", "separateWarnLog",
   "useDailyRotation", "customTransports"}

\* the caller writes one more of the keys that decide the transports
SetSinkOption(k, v) ==
  /\ out.status = "none"
  /\ k \in SinkKeys
  /\ k \notin DOMAIN options
  /\ options' = Spread(options, [x \in {k} |-> v])
  /\ UNCHANGED <<nodeEnv, fs, out, logged, files, message, console, input, output>>

NextSinks ==
  \/ \E e \in NodeEnvValues : SetEnv(e)
  \/ \E k \in OptionKeys : \E v \in OptionValues(k) : SetSinkOption(k, v)
  \/ \E mkdirFails \in BOOLEAN : CallCreateLogger(mkdirFails)
  \/ Reset

SpecSinks == Init /\ [][NextSinks]_vars

(***************************************************************************)
(* What the console shows: the caller sets the options that decide the     *)
(* Console transport and its format, creates a logger and logs one text.   *)
(***************************************************************************)
ConsoleKeys == {"enableConsoleLogging", "prettyPrint", "colorize", "customFormat"}

\* the caller writes one more of the keys that decide the console output
SetConsoleOption(k, v) ==
  /\ out.status = "none"
  /\ k \in ConsoleKeys
  /\ k \notin DOMAIN options
  /\ options' = Spread(options, [x \in {k} |-> v])
  /\ UNCHANGED <<nodeEnv, fs, out, logged, files, message, console, input, output>>

\* the texts callers log
Messages ==
  {<<"{", "\"test\"", ":", "\"value\"", "}">>,
   <<"{", "}">>,
   <<"{", "\"a\"", ":", "1.0", ",", "\"test\"", ":", "\"value\"", "}">>,
   <<"{", " ", "\"a\"", ":", " ", "\"value\"", " ", "}">>,
   <<"{", "\"a\"", ":", "1", ",", "\"1\"", ":", "2", "}">>,
   <<"{", "\"a\"", ":", "1", ",", "\"a\"", ":", "2", "}">>,
   <<"hello">>,
   <<"hello", " ", "{", "}">>,
   <<" ", "{", "\"test\"", ":", "\"value\"", "}">>,
   <<"{", "\"test\"", ":", "\"value\"">>,
   <<"{", "hello", "}">>,
   <<"{", "\"a\"", ":", "1", ",", "}">>,
   <<"{", "}", "hello">>,
   <<"{", "\"a\"", "1", "}">>}

\* the caller decides on the text to log
ComposeMessage(m) ==
  /\ out.status = "none"
  /\ message = <<>>
  /\ message' = m
  /\ UNCHANGED <<nodeEnv, options, fs, out, logged, files, console, input, output>>

\* logger[lvl](message), once for a logger
LogOnce(lvl) == logged = {} /\ Log(lvl)

NextConsole ==
  \/ \E e \in NodeEnvValues : SetEnv(e)
  \/ \E k \in OptionKeys : \E v \in OptionValues(k) : SetConsoleOption(k, v)
  \/ \E m \in Messages : ComposeMessage(m)
  \/ \E mkdirFails \in BOOLEAN : CallCreateLogger(mkdirFails)
  \/ \E lvl \in LogLevel : LogOnce(lvl)
  \/ Reset

SpecConsole == Init /\ [][NextConsole]_vars

(***************************************************************************)
(* The helpers of utils.ts called on their own.                            *)
(***************************************************************************)
\* the sizes callers give: small ones of either sign, and large ones
Sizes == (-MaxSize..MaxSize) \cup {2047, 2147483647}

\* createBytes(n)
CallCreateBytes(n) ==
  /\ input' = [fn |-> "createBytes", arg |-> n]
  /\ output' = createBytes(n)
  /\ UNCHANGED <<nodeEnv, options, fs, out, logged, files, message, console>>

\* MB(n), for the sizes whose byte count a 32-bit integer holds
CallMB(n) ==
  /\ n <= 2047
  /\ input' = [fn |-> "MB", arg |-> n]
  /\ output' = MB(n)
  /\ UNCHANGED <<nodeEnv, options, fs, out, logged, files, message, console>>

\* the strings callers give the path helpers
PathChars == {Sep, ".", "a"}

Strings == UNION {[1..n -> PathChars] : n \in 0..MaxLen}

\* createSafePath(x)
CallCreateSafePath(x) ==
  /\ input = NoInput
  /\ input' = [fn |-> "createSafePath", arg |-> x]
  /\ output' = createSafePath(x)
  /\ UNCHANGED <<nodeEnv, options, fs, out, logged, files, message, console>>

\* joinSafePaths(a, b), each a string or a safe path
CallJoinSafePaths(a, b) ==
  /\ input = NoInput
  /\ input' = [fn |-> "joinSafePaths", arg |-> <<a, b>>]
  /\ output' = joinSafePaths(<<a, b>>)
  /\ UNCHANGED <<nodeEnv, options, fs, out, logged, files, message, console>>

\* createSafePathWithSuffix(base, suffix) for a safe path base
CallCreateSafePathWithSuffix(base, suffix) ==
  /\ input = NoInput
  /\ input' = [fn |-> "createSafePathWithSuffix", arg |-> <<base, suffix>>]
  /\ output' = createSafePathWithSuffix(base, suffix)
  /\ UNCHANGED <<nodeEnv, options, fs, out, logged, files, message, console>>

\* the caller is done with the path
Forget ==
  /\ input # NoInput
  /\ input' = NoInput
  /\ output' = NoInput
  /\ UNCHANGED <<nodeEnv, options, fs, out, logged, files, message, console>>

NextPaths ==
  \/ \E x \in Strings : CallCreateSafePath(x)
  \/ \E a \in Strings \cup {createSafePath(x) : x \in Strings} : \E b \in Strings :
       CallJoinSafePaths(a, b)
  \/ \E x \in Strings : \E suffix \in Strings :
       CallCreateSafePathWithSuffix(createSafePath(x), suffix)
  \/ Forget

SpecPaths == Init /\ [][NextPaths]_vars

NextBytes ==
  \/ \E n \in Sizes : CallCreateBytes(n)
  \/ \E n \in Sizes : CallMB(n)

SpecBytes == Init /\ [][NextBytes]_vars

(***************************************************************************)
(* The factory on a disk that has a history: other programs leave          *)
(* directories and files where the factory is about to look, and a logger  *)
(* can be dropped while the directories made for it stay.                  *)
(***************************************************************************)
FsKeys == {"logName", "logDirectory", "enableFileLogging"}

SetFsOption(k, v) == k \in FsKeys /\ SetOption(k, v)

\* where other programs leave something
ExternalPaths ==
  {<<"/", "d">>, Cwd \o <<Sep>> \o <<"l", "o", "g", "s">>,
   Cwd \o <<Sep>> \o <<"l", "o", "g", "s">> \o <<Sep>> \o DefaultLogName}

\* the directory a path is in
Parent(p) ==
  LET segs == NormSegs(Split(p), <<>>, FALSE)
  IN IF Len(segs) <= 1 THEN <<Sep>>
     ELSE <<Sep>> \o JoinSegs(SubSeq(segs, 1, Len(segs) - 1))

\* another program makes a directory or writes a file at p
PlaceEntry(p, entry) ==
  /\ out.status = "none"
  /\ p \notin DOMAIN fs
  /\ Parent(p) \in DOMAIN fs
  /\ fs[Parent(p)].dir
  /\ Cardinality(DOMAIN fs) < MaxEntries
  /\ fs' = [d \in (DOMAIN fs) \cup {p} |-> IF d = p THEN entry ELSE fs[d]]
  /\ UNCHANGED <<nodeEnv, options, out, logged, files, message, console, input, output>>

\* the logger is dropped; what is on the disk stays
Drop ==
  /\ out.status # "none"
  /\ Cardinality(DOMAIN fs) <= MaxEntries
  /\ options' = <<>>
  /\ out' = NoCall
  /\ logged' = {}
  /\ files' = <<>>
  /\ message' = <<>>
  /\ console' = {}
  /\ UNCHANGED <<nodeEnv, fs, input, output>>

\* what others put there: a directory or a regular file
ExternalEntries == {Directory("0755"), RegularFile("0644")}

NextFs ==
  \/ \E k \in OptionKeys : \E v \in OptionValues(k) : SetFsOption(k, v)
  \/ \E p \in ExternalPaths : \E entry \in ExternalEntries : PlaceEntry(p, entry)
  \/ \E mkdirFails \in BOOLEAN : CallCreateLogger(mkdirFails)
  \/ Drop
  \/ Reset

SpecFs == Init /\ [][NextFs]_vars

(***************************************************************************)
(* src/src/utils/tryCatchWrapper.ts                                        *)
(*                                                                         *)
(* A JavaScript value is a record: its type, the identity of an object     *)
(* (0 for one made during the call), the string of a string or the message *)
(* of an error, the number of a number, the code of a CustomError.         *)
(***************************************************************************)
MaxInvocations == 2    \* invocations an operation has an outcome for

JsValue(type, id, str, num, code) ==
  [type |-> type, id |-> id, str |-> str, num |-> num, code |-> code]

JsUndefined == [type |-> "undefined", id |-> 0, str |-> "", num |-> 0, code |-> ""]

JsNull == [type |-> "null", id |-> 0, str |-> "", num |-> 0, code |-> ""]

Digit == <<"0", "1", "2", "3", "4", "5", "6", "7", "8", "9">>

RECURSIVE Decimal(_)
Decimal(n) == IF n < 10 THEN Digit[n + 1] ELSE Decimal(n \div 10) \o Digit[(n % 10) + 1]

\* String(x)
String(x) ==
  CASE x.type = "string" -> x.str
    [] x.type = "number" -> IF x.num < 0 THEN "-" \o Decimal(-x.num) ELSE Decimal(x.num)
    [] x.type = "undefined" -> "undefined"
    [] x.type = "null" -> "null"
    [] OTHER -> IF x.str = "" THEN "Error" ELSE "Error: " \o x.str

\* x instanceof Error
instanceofError(x) == x.type \in {"Error", "CustomError"}

\* new Error(message)
newError(msg) == JsValue("Error", 0, msg, 0, "")

\* errorHandler(error), for the handlers
\* (error) => new CustomError('Handled error', 'E001') and
\* (error) => new CustomError(String(error), 'E002')
CallHandler(errorHandler, error) ==
  IF errorHandler = "handled"
  THEN JsValue("CustomError", 0, "Handled error", 0, "E001")
  ELSE JsValue("CustomError", 0, String(error), 0, "E002")

\* what operations return, resolve with, throw and reject with
JsValues ==
  {JsUndefined, JsNull,
   [type |-> "string", id |-> 0, str |-> "string error", num |-> 0, code |-> ""],
   [type |-> "number", id |-> 0, str |-> "", num |-> -42, code |-> ""],
   [type |-> "Error", id |-> 1, str |-> "Original error", num |-> 0, code |-> ""],
   [type |-> "Error", id |-> 2, str |-> "Original error", num |-> 0, code |-> ""]}

\* an operation is the outcomes of its invocations, in turn: an invocation returns
\* or throws; an async one resolves or rejects
SyncOperations == [1..MaxInvocations -> [how : {"returns", "throws"}, value : JsValues]]

AsyncOperations ==
  [1..MaxInvocations ->
     [how : {"returns", "throws", "resolves", "rejects"}, value : JsValues]]

Success(data) == [success |-> TRUE, data |-> data, error |-> JsNull]

Failure(error) == [success |-> FALSE, data |-> JsNull, error |-> error]

\* the catch block with every thrown value wrapped in a new Error
handledErrorWrapped(errorHandler, error) ==
  IF errorHandler # Undefined
  THEN CallHandler(errorHandler[1], error)
  ELSE newError(String(error))

\* the catch block of both wrappers
handledError(errorHandler, error) ==
  IF errorHandler # Undefined
  THEN CallHandler(errorHandler[1], error)
  ELSE IF instanceofError(error) THEN error ELSE newError(String(error))

\* tryCatchSync(operation, errorHandler): the result, and the invocations of the
\* operation left over
tryCatchSync(operation, errorHandler) ==
  LET o == Head(operation)
  IN [result |-> IF o.how = "returns"
                 THEN Success(o.value)
                 ELSE Failure(handledError(errorHandler, o.value)),
      left |-> Tail(operation)]

\* tryCatch(operation, errorHandler), once the promise it returns has settled
tryCatch(operation, errorHandler) ==
  LET o == Head(operation)
  IN [result |-> IF o.how \in {"returns", "resolves"}
                 THEN Success(o.value)
                 ELSE Failure(handledError(errorHandler, o.value)),
      left |-> Tail(operation)]

NoResult == [success |-> FALSE, data |-> JsNull, error |-> JsNull]

\* const result = tryCatchSync(operation, errorHandler)
CallTryCatchSync(operation, errorHandler) ==
  /\ input' = [fn |-> "tryCatchSync", arg |-> <<operation, errorHandler>>]
  /\ output' = [state |-> "returned",
                result |-> tryCatchSync(operation, errorHandler).result,
                left |-> tryCatchSync(operation, errorHandler).left]
  /\ UNCHANGED <<nodeEnv, options, fs, out, logged, files, message, console>>

\* const promise = tryCatch(operation, errorHandler): the operation is invoked and
\* the wrapper waits
CallTryCatch(operation, errorHandler) ==
  /\ input' = [fn |-> "tryCatch", arg |-> <<operation, errorHandler>>]
  /\ output' = [state |-> "pending", result |-> NoResult, left |-> Tail(operation)]
  /\ UNCHANGED <<nodeEnv, options, fs, out, logged, files, message, console>>

\* the wrapper resumes after its await and the promise is fulfilled
SettleTryCatch ==
  /\ input.fn = "tryCatch"
  /\ output.state = "pending"
  /\ output' = [state |-> "fulfilled",
                result |-> tryCatch(input.arg[1], input.arg[2]).result,
                left |-> output.left]
  /\ UNCHANGED <<nodeEnv, options, fs, out, logged, files, message, console, input>>

\* no handler, or one of the two
HandlerValues == {Undefined, Some("handled"), Some("described")}

NextTry ==
  \/ /\ input = NoInput
     /\ \E operation \in SyncOperations : \E errorHandler \in HandlerValues :
          CallTryCatchSync(operation, errorHandler)
  \/ /\ input = NoInput
     /\ \E operation \in AsyncOperations : \E errorHandler \in HandlerValues :
          CallTryCatch(operation, errorHandler)
  \/ SettleTryCatch
  \/ Forget

SpecTry == Init /\ [][NextTry]_vars

(***************************************************************************)
(* Call after call in one process: between calls the program sets NODE_ENV *)
(* and makes a new option object; the logger of the call before stays.     *)
(* input is what the latest call was given.                                *)
(***************************************************************************)
CallKeys ==
  {"level", "enableConsoleLogging", "enableFileLogging", "useDailyRotation",
   "separateWarnLog"}

\* process.env.NODE_ENV = e between two calls
GiveEnv(e) ==
  /\ nodeEnv' = e
  /\ UNCHANGED <<options, fs, out, logged, files, message, console, input, output>>

\* the next call's option object: { k: v }
GiveOptions(k, v) ==
  /\ k \in CallKeys
  /\ options' = [x \in {k} |-> v]
  /\ UNCHANGED <<nodeEnv, fs, out, logged, files, message, console, input, output>>

\* the next call's option object: {}
GiveNoOptions ==
  /\ options' = <<>>
  /\ UNCHANGED <<nodeEnv, fs, out, logged, files, message, console, input, output>>

\* const logger = createLogger(options), whatever was called before
CallAgain(mkdirFails) ==
  /\ out' = createLogger(nodeEnv, options, fs, mkdirFails)
  /\ input' = [fn |-> "createLogger", arg |-> <<nodeEnv, options>>]
  /\ fs' = out'.disk
  /\ files' = [i \in 1..Len(out'.transports) |-> {}]
  /\ UNCHANGED <<nodeEnv, options, logged, message, console, output>>

NextCalls ==
  \/ \E e \in NodeEnvValues : GiveEnv(e)
  \/ \E k \in CallKeys : \E v \in OptionValues(k) : GiveOptions(k, v)
  \/ GiveNoOptions
  \/ \E mkdirFails \in BOOLEAN : CallAgain(mkdirFails)

SpecCalls == Init /\ [][NextCalls]_vars

(***************************************************************************)
(* Two processes call createLogger with the same options on one disk.      *)
(* Each call is synchronous in its process; between two of its system      *)
(* calls the other process may run.  input is the option object both were  *)
(* given, output is where each process is.                                 *)
(***************************************************************************)
Callers == {"p", "q"}

\* both processes have entered createLogger and not yet looked at the disk
Entered == [c \in Callers |-> [pc |-> "exists", saw |-> FALSE, made |-> 0, error |-> ""]]

\* logDir of a call with the options opts
logDirOf(opts) ==
  DirOf(joinSafePaths(<<safeLogDirectory(opts),
                        Nullish(Get(opts, "logName"), Some(DefaultLogName))[1]>>))

\* the directories on the way to p that are not there
Missing(disk, p) == Prefixes(NormSegs(Split(p), <<>>, FALSE)) \ DOMAIN disk

\* the same without recursive's tolerance: an existing directory is EEXIST
mkdirOneExclusive(disk, p, mode) ==
  IF mkdirBlocked(disk, p) THEN [disk |-> disk, error |-> NotDirError, made |-> 0]
  ELSE IF Missing(disk, p) = {}
       THEN [disk |-> disk, error |-> "EEXIST: file already exists, mkdir", made |-> 0]
  ELSE LET d == CHOOSE x \in Missing(disk, p) : \A y \in Missing(disk, p) : Len(x) <= Len(y)
       IN [disk |-> [x \in (DOMAIN disk) \cup {d} |->
                       IF x \in DOMAIN disk THEN disk[x] ELSE Directory(mode)],
           error |-> "", made |-> 1]

\* one system call of fs.mkdirSync(p, { recursive: true, mode }): the topmost
\* missing directory on the way to p is made; that another process has made p in
\* the meantime is no error
mkdirOne(disk, p, mode) ==
  IF mkdirBlocked(disk, p) THEN [disk |-> disk, error |-> NotDirError, made |-> 0]
  ELSE IF Missing(disk, p) = {} THEN [disk |-> disk, error |-> "", made |-> 0]
  ELSE LET d == CHOOSE x \in Missing(disk, p) : \A y \in Missing(disk, p) : Len(x) <= Len(y)
       IN [disk |-> [x \in (DOMAIN disk) \cup {d} |->
                       IF x \in DOMAIN disk THEN disk[x] ELSE Directory(mode)],
           error |-> "", made |-> 1]

\* both processes are started with createLogger({ logName, logDirectory })
StartBoth(opts) ==
  /\ input' = [fn |-> "createLogger", arg |-> opts]
  /\ output' = Entered
  /\ UNCHANGED <<nodeEnv, options, fs, out, logged, files, message, console>>

\* if (!fs.existsSync(logDir))
CheckExists(c) ==
  /\ input.fn = "createLogger"
  /\ output[c].pc = "exists"
  /\ output' = [output EXCEPT
                  ![c].saw = existsSync(fs, logDirOf(input.arg)),
                  ![c].pc = IF existsSync(fs, logDirOf(input.arg)) THEN "build" ELSE "mkdir"]
  /\ UNCHANGED <<nodeEnv, options, fs, out, logged, files, message, console, input>>

\* fs.mkdirSync(logDir, { recursive: true, mode: 0o700 }), one directory at a time;
\* catch: console.error and throw
MkdirStep(c) ==
  /\ input.fn = "createLogger"
  /\ output[c].pc = "mkdir"
  /\ LET r == mkdirOne(fs, logDirOf(input.arg), "0700")
     IN /\ fs' = r.disk
        /\ output' = [output EXCEPT
                        ![c].made = @ + r.made,
                        ![c].error = r.error,
                        ![c].pc = IF r.error # "" THEN "threw"
                                  ELSE IF Missing(r.disk, logDirOf(input.arg)) = {}
                                       THEN "build" ELSE "mkdir"]
  /\ UNCHANGED <<nodeEnv, options, out, logged, files, message, console, input>>

\* the rest of createLogger: the transports and the logger
BuildStep(c) ==
  /\ input.fn = "createLogger"
  /\ output[c].pc = "build"
  /\ output' = [output EXCEPT
                  ![c].pc = createLogger(nodeEnv, input.arg, fs, FALSE).status]
  /\ UNCHANGED <<nodeEnv, options, fs, out, logged, files, message, console, input>>

\* both processes have ended; the log directories are removed
EndBoth ==
  /\ input.fn = "createLogger"
  /\ \A c \in Callers : output[c].pc \in {"returned", "threw"}
  /\ input' = NoInput
  /\ output' = NoInput
  /\ fs' = InitialDisk
  /\ UNCHANGED <<nodeEnv, options, out, logged, files, message, console>>

\* the option objects the two processes are given
SharedOptions ==
  {<<>>} \cup {[k \in {"logName"} |-> n] : n \in OptionValueSets["logName"]}
  \cup {[k \in {"logDirectory"} |-> d] : d \in OptionValueSets["logDirectory"]}
  \cup {[k \in {"logName", "logDirectory"} |->
           IF k = "logName" THEN nd[1] ELSE nd[2]] :
         nd \in OptionValueSets["logName"] \X OptionValueSets["logDirectory"]}

NextBoth ==
  \/ /\ input = NoInput
     /\ \E opts \in SharedOptions : StartBoth(opts)
  \/ \E c \in Callers : CheckExists(c)
  \/ \E c \in Callers : MkdirStep(c)
  \/ \E c \in Callers : BuildStep(c)
  \/ EndBoth

SpecBoth == Init /\ [][NextBoth]_vars

(***************************************************************************)
(* The claims.  What they say of a factory call is read off out, the       *)
(* record the call leaves behind: out.env and out.options are the          *)
(* NODE_ENV value and the option object of the call.                       *)
(***************************************************************************)
Returned == out.status = "returned"

\* the environment a call ran in, when NODE_ENV named none
CallEnv == IF TruthyStr(out.env) THEN out.env[1] ELSE "development"

\* the defaults table of the specification (section 4.3)
DefaultsTable ==
  [development |->
     [level |-> "debug", enableConsoleLogging |-> TRUE, enableFileLogging |-> TRUE,
      prettyPrint |-> TRUE, colorize |-> TRUE, maxFileSize |-> 5 * 1048576,
      maxFiles |-> 5, separateErrorLog |-> TRUE, separateWarnLog |-> TRUE,
      useDailyRotation |-> FALSE],
   production |->
     [level |-> "info", enableConsoleLogging |-> FALSE, enableFileLogging |-> TRUE,
      prettyPrint |-> FALSE, colorize |-> FALSE, maxFileSize |-> 10 * 1048576,
      maxFiles |-> 10, separateErrorLog |-> TRUE, separateWarnLog |-> FALSE,
      useDailyRotation |-> TRUE],
   test |->
     [level |-> "debug", enableConsoleLogging |-> FALSE, enableFileLogging |-> TRUE,
      prettyPrint |-> FALSE, colorize |-> FALSE, maxFileSize |-> 1048576,
      maxFiles |-> 2, separateErrorLog |-> TRUE, separateWarnLog |-> FALSE,
      useDailyRotation |-> FALSE]]

\* the table's value of a key in an environment, Undefined when it has none
TableValue(env, k) ==
  IF k \in DOMAIN DefaultsTable[env] THEN Some(DefaultsTable[env][k]) ELSE Undefined

\* C1: with an empty option object, the resolved configuration of a call in a
\* recognized environment carries exactly that environment's row of the defaults
\* table, in all ten columns.
C1_DefaultsMatchTable ==
  (Returned /\ DOMAIN out.options = {}) =>
    \A k \in DOMAIN DefaultsTable[CallEnv] :
      Get(out.finalOptions, k) = Some(DefaultsTable[CallEnv][k])

C1_Witness ==
  /\ Returned
  /\ DOMAIN out.options = {}
  /\ out.env = Some("production")
  /\ out.finalOptions["maxFileSize"] = Some(10485760)

\* C2: every key other than logName, logDirectory and maxFileSize resolves to the
\* caller's value when the caller's object has the key and to the environment
\* default otherwise.
C2_PerFieldPrecedence ==
  Returned =>
    \A k \in OptionKeys \ {"logName", "logDirectory", "maxFileSize"} :
      Get(out.finalOptions, k) =
        IF k \in DOMAIN out.options THEN out.options[k] ELSE TableValue(CallEnv, k)

C2_Witness ==
  /\ Returned
  /\ out.env = Some("production")
  /\ "level" \in DOMAIN out.options
  /\ out.options["level"] = Some("error")
  /\ out.finalOptions["level"] = Some("error")
  /\ "separateWarnLog" \notin DOMAIN out.options
  /\ out.finalOptions["separateWarnLog"] = Some(FALSE)

\* whether a call was made with NODE_ENV set to a string naming no environment
InvalidEnvCall ==
  /\ out.status # "none"
  /\ out.env # Undefined
  /\ out.env[1] \notin {"development", "production", "test"}

C4_WarnsExactlyWhenAbsent ==
  out.status # "none" =>
    /\ out.env = Undefined =>
         /\ out.warnings = 1
         /\ Returned =>
              \A k \in DOMAIN DefaultsTable["development"] :
                k \notin DOMAIN out.options =>
                  out.finalOptions[k] = Some(DefaultsTable["development"][k])
    /\ out.env # Undefined => out.warnings = 0

\* the kind of sink a transport is, in the words of the specification
SinkKind(t) ==
  CASE t.kind = "Console" -> "Console"
    [] t.kind = "DailyRotateFile" -> "RotatedFile"
    [] t.kind = "File" /\ t.level = Undefined -> "CombinedFile"
    [] t.kind = "File" /\ t.level = Some("error") -> "ErrorFile"
    [] t.kind = "File" /\ t.level = Some("warn") -> "WarningFile"
    [] OTHER -> "CustomSink"

\* the place of a kind in the order of section 4.5
Rank(kind) ==
  CASE kind = "Console" -> 1
    [] kind \in {"RotatedFile", "CombinedFile"} -> 2
    [] kind = "ErrorFile" -> 3
    [] kind = "WarningFile" -> 4
    [] OTHER -> 5

\* the kinds of the transports of the logger, in order
Kinds == [i \in DOMAIN out.transports |-> SinkKind(out.transports[i])]

\* the transports of the logger of the given kinds
Sinks(kinds) == {i \in DOMAIN out.transports : Kinds[i] \in kinds}

\* C5: the transports come in the order Console, main file, ErrorFile, WarningFile,
\* custom; no built-in kind appears twice and none after a kind that follows it.
C5_SinkOrder ==
  Returned =>
    \A i, j \in DOMAIN out.transports :
      i < j =>
        /\ Rank(Kinds[i]) <= Rank(Kinds[j])
        /\ Rank(Kinds[i]) = Rank(Kinds[j]) => Kinds[i] = "CustomSink"

C5_Witness ==
  /\ Returned
  /\ Kinds = <<"Console", "CombinedFile", "ErrorFile", "WarningFile", "CustomSink",
               "CustomSink">>

\* whether s ends with suffix
EndsWith(s, suffix) ==
  /\ Len(s) >= Len(suffix)
  /\ SubSeq(s, Len(s) - Len(suffix) + 1, Len(s)) = suffix

\* the option of the resolved configuration is on
On(k) == Get(out.finalOptions, k) = Some(TRUE)

\* <base> of section 4.5: joinPaths(logDir, logName)
Base == joinSafePaths(<<out.logDir, out.finalOptions["logName"][1]>>)

\* C6: with enableFileLogging on there is exactly one main file transport: with
\* useDailyRotation on a DailyRotateFile at <base>-%DATE%.log with the daily date
\* pattern, otherwise a File at <base>-All.log.
C6_OneMainFileSink ==
  (Returned /\ On("enableFileLogging")) =>
    /\ Cardinality(Sinks({"RotatedFile", "CombinedFile"})) = 1
    /\ \A i \in Sinks({"RotatedFile", "CombinedFile"}) :
         IF On("useDailyRotation")
         THEN /\ Kinds[i] = "RotatedFile"
              /\ out.transports[i].datePattern = Some("YYYY-MM-DD")
              /\ out.transports[i].filename = Some(createSafePathWithSuffix(Base, SuffixDate))
              /\ EndsWith(out.transports[i].filename[1], SuffixDate)
         ELSE /\ Kinds[i] = "CombinedFile"
              /\ out.transports[i].filename = Some(createSafePathWithSuffix(Base, SuffixAll))
              /\ EndsWith(out.transports[i].filename[1], SuffixAll)

C6_Witness ==
  /\ Returned
  /\ out.env = Some("production")
  /\ DOMAIN out.options = {}
  /\ Kinds = <<"RotatedFile", "ErrorFile">>

\* <D>/<N>/<N><suffix>, joined as the tests join it
LayoutPath(D, N, suffix) == join(<<join(<<D, N>>), N \o suffix>>)

\* the file names of the file transports of the logger
FileNames ==
  {out.transports[i].filename[1] :
     i \in Sinks({"RotatedFile", "CombinedFile", "ErrorFile", "WarningFile"})}

\* C7 as stated: with file logging and both separate logs on, the file transports
\* are at exactly D/N/N-All.log (D/N/N-%DATE%.log with rotation), D/N/N-error.log
\* and D/N/N-warn.log, for the resolved logDirectory D and every logName N.
C7_FileLayout ==
  (Returned /\ On("enableFileLogging") /\ On("separateErrorLog") /\ On("separateWarnLog")) =>
    LET D == out.finalOptions["logDirectory"][1]
        N == out.finalOptions["logName"][1]
    IN FileNames =
         {LayoutPath(D, N, IF On("useDailyRotation") THEN SuffixDate ELSE SuffixAll),
          LayoutPath(D, N, SuffixError), LayoutPath(D, N, SuffixWarn)}

\* C10: the resolved maxFileSize is the caller's when the caller gives one (0
\* included) and the environment's default otherwise, and every file transport is
\* built with that maxsize.
C10_MaxFileSize ==
  Returned =>
    LET given == Get(out.options, "maxFileSize")
        expected == IF given # Undefined THEN given ELSE TableValue(CallEnv, "maxFileSize")
    IN /\ out.finalOptions["maxFileSize"] = expected
       /\ \A i \in Sinks({"RotatedFile", "CombinedFile", "ErrorFile", "WarningFile"}) :
            out.transports[i].maxsize = expected

C10_Witness ==
  /\ Returned
  /\ Get(out.options, "maxFileSize") = Some(0)
  /\ out.finalOptions["maxFileSize"] = Some(0)
  /\ Cardinality(Sinks({"CombinedFile", "ErrorFile", "WarningFile"})) = 3
  /\ \A i \in Sinks({"CombinedFile", "ErrorFile", "WarningFile"}) :
       out.transports[i].maxsize = Some(0)

\* whether the logger has a combined, an error and a warning file
ThreeFiles ==
  /\ Sinks({"CombinedFile"}) # {}
  /\ Sinks({"ErrorFile"}) # {}
  /\ Sinks({"WarningFile"}) # {}

\* C8 as stated: with the combined, error and warning files enabled and a level
\* that admits error, warn and info, one message at each of the three leaves the
\* error message alone in the error file, the warn message alone in the warn
\* file, and all three in the combined file.
C8_SeparateFilesHoldOnlyTheirLevel ==
  (/\ Returned
   /\ ThreeFiles
   /\ out.silent # Some(TRUE)
   /\ levels[out.level] >= levels["info"]
   /\ logged = {"error", "warn", "info"}) =>
    /\ \A i \in Sinks({"ErrorFile"}) : files[i] = {"error"}
    /\ \A i \in Sinks({"WarningFile"}) : files[i] = {"warn"}
    /\ \A i \in Sinks({"CombinedFile"}) : files[i] = {"error", "warn", "info"}

\* C9 as stated: with level 'error' a message at info is in neither the combined
\* nor the error file and a message at error is in both; and no file transport
\* holds a message whose number in the level table is greater than that of the
\* logger's level.
C9_LevelIsThreshold ==
  (Returned /\ out.silent # Some(TRUE)) =>
    /\ out.level = "error" =>
         \A i \in Sinks({"CombinedFile", "ErrorFile"}) :
           /\ "info" \notin files[i]
           /\ "error" \in logged => "error" \in files[i]
    /\ \A i \in Sinks({"RotatedFile", "CombinedFile", "ErrorFile", "WarningFile"}) :
         \A lvl \in files[i] : levels[lvl] <= levels[out.level]

\* <cwd>/logs
CwdLogs == Cwd \o <<Sep>> \o <<"l", "o", "g", "s">>

\* the logDirectory the caller supplied, Undefined when none
GivenDirectory == Get(out.options, "logDirectory")

\* C11 as stated: the resolved logDirectory is <cwd>/logs when the caller supplied
\* no logDirectory and makePath of the caller's string for every string supplied.
C11_Original ==
  Returned =>
    out.finalOptions["logDirectory"] =
      IF GivenDirectory = Undefined THEN Some(CwdLogs)
      ELSE Some(createSafePath(GivenDirectory[1]))

\* C11 amended: the resolved logDirectory is <cwd>/logs when the caller supplied
\* no logDirectory or the empty string, and makePath of the caller's string for
\* every non-empty string: an absolute normalized string is kept, a relative
\* normalized one is put under the current working directory.
C11_LogDirectoryResolution ==
  Returned =>
    LET resolved == out.finalOptions["logDirectory"][1]
    IN IF GivenDirectory = Undefined \/ GivenDirectory = Some(<<>>)
       THEN resolved = CwdLogs
       ELSE /\ resolved = createSafePath(GivenDirectory[1])
            /\ isAbsolute(resolved)
            /\ normalize(GivenDirectory[1]) = GivenDirectory[1] =>
                 resolved = IF isAbsolute(GivenDirectory[1]) THEN GivenDirectory[1]
                            ELSE Cwd \o <<Sep>> \o GivenDirectory[1]

C11_Witness ==
  /\ Returned
  /\ GivenDirectory = Some(<<"r">>)
  /\ out.finalOptions["logDirectory"] = Some(<<"/", "w", "/", "r">>)
  /\ out.logDir = <<"/", "w", "/", "r", "/", "a", "p", "p">>

\* a factory call that returns a logger
CallReturns == out.status = "none" /\ out'.status = "returned"

\* joinPaths(logDirectory, logName) of the call that has just returned, with
\* logName 'app' when the caller gave none
CallDirectory ==
  DirOf(joinSafePaths(<<out'.finalOptions["logDirectory"][1],
                        IF Get(out'.options, "logName") = Undefined THEN DefaultLogName
                        ELSE out'.options["logName"][1]>>))

\* what a returning call does to the disk, whatever enableFileLogging is: the
\* directory is there afterwards; nothing that existed is changed; what is new is
\* the directory and its missing parents, with mode 0700
DirectoryEnsured(dir, before, after) ==
  /\ dir \in DOMAIN after
  /\ after[dir].dir
  /\ \A d \in DOMAIN before : d \in DOMAIN after /\ after[d] = before[d]
  /\ \A d \in (DOMAIN after) \ (DOMAIN before) :
       /\ d \in Prefixes(NormSegs(Split(dir), <<>>, FALSE))
       /\ after[d].dir
       /\ after[d].mode = "0700"

\* C12 as stated: after every successful createLogger call the directory
\* joinPaths(logDirectory, logName) exists; it was created with its missing parents
\* with mode 0700 when it did not exist and left untouched when it did, whether or
\* not enableFileLogging is on.
C12_DirectoryExistsAfterCall ==
  [][CallReturns => DirectoryEnsured(CallDirectory, fs, fs')]_vars

\* a factory call that ends, one way or the other
CallEnds == out.status = "none" /\ out'.status # "none"

\* the directory the call that has just ended looked for
SoughtDirectory ==
  DirOf(joinSafePaths(<<safeLogDirectory(out'.options),
                        Nullish(Get(out'.options, "logName"), Some(DefaultLogName))[1]>>))

\* C13: a call in which fs.mkdirSync throws writes to the error channel once,
\* called mkdirSync once, throws the error mkdirSync threw, builds no transport and
\* returns no logger; and a call that finds the directory missing and a file on the
\* way to it does throw (the error is not swallowed).
C13_MkdirFailureRethrown ==
  [][CallEnds =>
       /\ (out'.mkdirs > 0 /\ out'.status = "threw") =>
            /\ out'.errors = 1
            /\ out'.mkdirs = 1
            /\ out'.error = IF mkdirBlocked(fs, SoughtDirectory) THEN NotDirError
                            ELSE MkdirError
            /\ out'.transports = <<>>
       /\ (/\ CallEnv' \in Environment
           /\ ~existsSync(fs, SoughtDirectory)
           /\ mkdirBlocked(fs, SoughtDirectory)) =>
            /\ out'.status = "threw"
            /\ out'.mkdirs = 1
       /\ out'.status = "returned" => out'.errors = 0]_vars

C13_Witness ==
  /\ out.status = "threw"
  /\ out.error = NotDirError
  /\ out.errors = 1
  /\ out.mkdirs = 1
  /\ out.transports = <<>>
  /\ ~fs[Cwd \o <<Sep>> \o <<"l", "o", "g", "s">>].dir

\* the custom transports the caller supplied, none when the key is absent or
\* undefined
GivenCustom ==
  IF Get(out.options, "customTransports") = Undefined THEN <<>>
  ELSE out.options["customTransports"][1]

\* C14: the transport list ends with the caller's custom transports, each as the
\* caller gave it and in the caller's order; everything before them is built in;
\* with console and file logging both off the list is the caller's list.
C14_CustomSinksAppended ==
  Returned =>
    /\ Len(out.transports) >= Len(GivenCustom)
    /\ SubSeq(out.transports, Len(out.transports) - Len(GivenCustom) + 1,
              Len(out.transports)) = GivenCustom
    /\ \A i \in 1..(Len(out.transports) - Len(GivenCustom)) :
         out.transports[i].kind \in {"Console", "File", "DailyRotateFile"}
    /\ (~On("enableConsoleLogging") /\ ~On("enableFileLogging")) =>
         out.transports = GivenCustom

C14_Witness ==
  /\ Returned
  /\ Get(out.options, "enableConsoleLogging") = Some(FALSE)
  /\ Get(out.options, "enableFileLogging") = Some(FALSE)
  /\ Get(out.options, "separateErrorLog") = Some(TRUE)
  /\ Len(out.transports) = 2
  /\ out.transports[1].kind = "Custom" /\ out.transports[1].id = "c2"
  /\ out.transports[2].kind = "Custom" /\ out.transports[2].id = "c1"

\* what section 4.5 and the claim say the pretty format shows for each text
PrettyRendering(m) ==
  CASE m = <<"{", "\"test\"", ":", "\"value\"", "}">> -> "< wow \"test\" such \"value\" >"
    [] m = <<"{", "}">> -> "< wow  >"
    [] m = <<"{", "\"a\"", ":", "1.0", ",", "\"test\"", ":", "\"value\"", "}">> ->
         "< wow \"a\" such 1, \"test\" such \"value\" >"
    [] m = <<"{", " ", "\"a\"", ":", " ", "\"value\"", " ", "}">> ->
         "< wow \"a\" such \"value\" >"
    [] m = <<"{", "\"a\"", ":", "1", ",", "\"1\"", ":", "2", "}">> ->
         "< wow \"1\" such 2, \"a\" such 1 >"
    [] m = <<"{", "\"a\"", ":", "1", ",", "\"a\"", ":", "2", "}">> -> "< wow \"a\" such 2 >"
    [] m = <<>> -> ""
    [] m = <<"hello">> -> "hello"
    [] m = <<"hello", " ", "{", "}">> -> "hello {}"
    [] m = <<" ", "{", "\"test\"", ":", "\"value\"", "}">> -> " {\"test\":\"value\"}"
    [] m = <<"{", "\"test\"", ":", "\"value\"">> -> "{\"test\":\"value\""
    [] m = <<"{", "hello", "}">> -> "{hello}"
    [] m = <<"{", "\"a\"", ":", "1", ",", "}">> -> "{\"a\":1,}"
    [] m = <<"{", "}", "hello">> -> "{}hello"
    [] m = <<"{", "\"a\"", "1", "}">> -> "{\"a\"1}"

\* C15: with prettyPrint and console logging on and no custom format, what the
\* console shows for a logged text is, for the text of a JSON object that begins
\* with '{', '< wow ' then the object's entries as <key> such <value> joined by
\* ', ' then ' >', and the text itself for every text that does not begin with
\* '{' or does not parse.
C15_PrettyRendering ==
  (/\ Returned
   /\ On("prettyPrint")
   /\ On("enableConsoleLogging")
   /\ ~On("silent")
   /\ ~TruthyStr(Get(out.finalOptions, "customFormat"))) =>
    /\ \A line \in console : line.text = PrettyRendering(message)
    /\ \A lvl \in logged : levels[lvl] <= levels[out.level] => console # {}

C15_Witness ==
  /\ Returned
  /\ Get(out.options, "prettyPrint") = Some(TRUE)
  /\ Get(out.options, "enableConsoleLogging") = Some(TRUE)
  /\ out.env = Some("test")
  /\ message = <<"{", "\"test\"", ":", "\"value\"", "}">>
  /\ \E line \in console : line.text = "< wow \"test\" such \"value\" >"

\* C16: with silent: true in the caller's options no Console transport writes
\* anything, whatever is logged, at whatever level, and whatever the other options
\* are.
C16_SilentNoConsoleOutput ==
  (Returned /\ Get(out.options, "silent") = Some(TRUE)) =>
    /\ console = {}
    /\ \A i \in Sinks({"Console"}) : files[i] = {}

C16_Witness ==
  /\ Returned
  /\ Get(out.options, "silent") = Some(TRUE)
  /\ Get(out.options, "enableConsoleLogging") = Some(TRUE)
  /\ Sinks({"Console"}) # {}
  /\ logged = {"error", "debug", "silly"}
  /\ console = {}

\* the options object that is a row of the defaults table
TableRow(env) == [k \in DOMAIN DefaultsTable[env] |-> Some(DefaultsTable[env][k])]

\* the sinks a row of the defaults table switches on, in the order of section 4.5
RowKinds(env) ==
  CASE env = "development" -> <<"Console", "CombinedFile", "ErrorFile", "WarningFile">>
    [] env = "production" -> <<"RotatedFile", "ErrorFile">>
    [] env = "test" -> <<"CombinedFile", "ErrorFile">>

\* the environment a createSimpleLogger call is for
SimpleEnv == IF out.call.env = Undefined THEN "development" ELSE out.call.env[1]

\* createLogger(environmentDefaults[env]), called where the simple call was made
\* once the directory is there
SameCreateLoggerCall == createLogger(out.env, TableRow(SimpleEnv), out.disk, FALSE)

\* C17: the logger createSimpleLogger(env) returns is the one
\* createLogger(environmentDefaults[env]) returns, env being development when no
\* argument is given: its level and its sinks are those of the row of env, whatever
\* NODE_ENV is, and it has at least one sink.
C17_SimpleLoggerIsCreateLoggerOfDefaults ==
  (Returned /\ out.call.name = "createSimpleLogger") =>
    /\ out.level = DefaultsTable[SimpleEnv].level
    /\ Kinds = RowKinds(SimpleEnv)
    /\ out.transports # <<>>
    /\ out.options = TableRow(SimpleEnv)
    /\ out.transports = SameCreateLoggerCall.transports
    /\ out.finalOptions = SameCreateLoggerCall.finalOptions

C17_Witness ==
  /\ Returned
  /\ out.call.name = "createSimpleLogger"
  /\ out.call.env = Undefined
  /\ out.env = Some("production")
  /\ out.level = "debug"
  /\ Len(out.transports) = 4

\* C18: MB(n) is n * 1,048,576 and createBytes(n) is n for every n >= 0, the large
\* ones included; both throw for every n < 0.
C18_BytesAndMegabytes ==
  /\ input.fn = "createBytes" =>
       IF input.arg >= 0
       THEN output.ok /\ output.value = input.arg
       ELSE ~output.ok /\ output.error = "Bytes cannot be negative"
  /\ input.fn = "MB" =>
       IF input.arg >= 0
       THEN output.ok /\ output.value = input.arg * 1048576
       ELSE ~output.ok /\ output.error = "Bytes cannot be negative"

C18_Witness ==
  /\ input.fn = "MB"
  /\ input.arg = 2047
  /\ output.ok
  /\ output.value = 2146435072

\* whether a helper that returns a path was called
PathReturned == input.fn \in {"createSafePath", "joinSafePaths", "createSafePathWithSuffix"}

\* an absolute path in normal form: it starts at the root and no segment of it is
\* empty, '.' or '..', but for the empty one a trailing separator leaves
IsNormalAbsolute(p) ==
  /\ Len(p) > 0
  /\ p[1] = Sep
  /\ \A i \in 2..Len(Split(p)) :
       /\ Split(p)[i] \notin {Dot, DotDot}
       /\ Split(p)[i] = <<>> => i = Len(Split(p))

\* C19: createSafePath(createSafePath(x)) = createSafePath(x) for every string x,
\* and what createSafePath, joinSafePaths and createSafePathWithSuffix return is an
\* absolute path in normal form that createSafePath leaves as it is.
C19_SafePathFixedPoint ==
  PathReturned =>
    /\ createSafePath(output) = output
    /\ IsNormalAbsolute(output)
    /\ input.fn = "createSafePath" =>
         createSafePath(createSafePath(input.arg)) = createSafePath(input.arg)

C19_Witness ==
  /\ input.fn = "createSafePathWithSuffix"
  /\ input.arg = <<<<"/", "w", "/", "a">>, <<"/", ".", ".">>>>
  /\ output = <<"/", "w">>

\* C20 as stated: the resolved maxFileSize is never negative, and no file
\* transport is built with a negative maxsize.
C20_MaxFileSizeNeverNegative ==
  Returned =>
    /\ out.finalOptions["maxFileSize"][1] >= 0
    /\ \A i \in Sinks({"RotatedFile", "CombinedFile", "ErrorFile", "WarningFile"}) :
         out.transports[i].maxsize[1] >= 0

\* the Default column of the options table of the README, by option
ReadmeDefaults ==
  [logName |-> DefaultLogName, logDirectory |-> <<".", "/", "l", "o", "g", "s">>,
   level |-> "debug", enableFileLogging |-> TRUE, enableConsoleLogging |-> TRUE,
   maxFileSize |-> 5 * 1048576, maxFiles |-> 5, useDailyRotation |-> FALSE,
   separateErrorLog |-> TRUE, separateWarnLog |-> TRUE, prettyPrint |-> FALSE,
   colorize |-> FALSE, silent |-> FALSE]

\* the options of the table that are switches
ReadmeSwitches ==
  {"enableFileLogging", "enableConsoleLogging", "useDailyRotation", "separateErrorLog",
   "separateWarnLog", "prettyPrint", "colorize", "silent"}

\* whether the resolved configuration has the documented default for option k: the
\* directory once made absolute, a switch by what it is taken for
HasReadmeDefault(k) ==
  IF k = "logDirectory"
    THEN out.finalOptions[k] = Some(resolve(Cwd, ReadmeDefaults[k]))
    ELSE IF k \in ReadmeSwitches
           THEN TruthyBool(Get(out.finalOptions, k)) = ReadmeDefaults[k]
           ELSE Get(out.finalOptions, k) = Some(ReadmeDefaults[k])

\* C21 as stated: an option the caller of createLogger leaves out resolves to the
\* default the options table of the README gives for it.
C21_ReadmeDefaults ==
  (Returned /\ out.call.name = "createLogger") =>
    \A k \in (DOMAIN ReadmeDefaults) \ (DOMAIN out.options) : HasReadmeDefault(k)

\* whether the call that has just ended failed with InvalidEnvironment
FailsInvalidEnvironment ==
  /\ CallEnds
  /\ out'.status = "threw"
  /\ out'.env # Undefined
  /\ out'.error = "Invalid environment: " \o out'.env[1]

\* C22: a call that fails with InvalidEnvironment fails before anything is done to
\* the disk: it did not call fs.mkdirSync, the disk is as it was, it wrote nothing
\* to the error channel, it built no transport and no logger exists.
C22_InvalidEnvironmentBeforeDisk ==
  [][FailsInvalidEnvironment =>
       /\ fs' = fs
       /\ out'.mkdirs = 0
       /\ out'.errors = 0
       /\ out'.transports = <<>>
       /\ out'.finalOptions = <<>>
       /\ files' = <<>>]_vars

C22_Witness ==
  /\ out.status = "threw"
  /\ out.error = "Invalid environment: staging"
  /\ out.mkdirs = 0
  /\ Get(out.options, "enableFileLogging") = Some(TRUE)
  /\ (Cwd \o <<Sep>> \o <<"l", "o", "g", "s">>) \notin DOMAIN fs

\* the kinds of sink that write to a file of the factory's
FileKinds == {"RotatedFile", "CombinedFile", "ErrorFile", "WarningFile"}

\* C23: a logger made with enableFileLogging off has no file sink of any kind,
\* whatever useDailyRotation, separateErrorLog and separateWarnLog are; and a
\* logger that has an ErrorFile or a WarningFile sink has a main file sink too.
C23_NoFileSinkWithoutFileLogging ==
  Returned =>
    /\ ~On("enableFileLogging") => Sinks(FileKinds) = {}
    /\ Sinks({"ErrorFile", "WarningFile"}) # {} =>
         Sinks({"RotatedFile", "CombinedFile"}) # {}

C23_Witness ==
  /\ Returned
  /\ Get(out.options, "enableFileLogging") = Some(FALSE)
  /\ On("useDailyRotation")
  /\ On("separateErrorLog")
  /\ On("separateWarnLog")
  /\ Len(out.transports) = 1
  /\ out.transports[1].kind = "Console"


\* the environment and the option object the latest call of a sequence was given
GivenEnv == IF TruthyStr(input.arg[1]) THEN input.arg[1][1] ELSE "development"

GivenOptions == input.arg[2]

\* a switch as the call's own option object and the table row of GivenEnv give it
GivenSwitch(k) ==
  IF k \in DOMAIN GivenOptions
  THEN GivenOptions[k] = Some(TRUE)
  ELSE DefaultsTable[GivenEnv][k]

\* the level handed to the engine, from the same two
GivenLevel ==
  IF "level" \in DOMAIN GivenOptions
  THEN (IF GivenOptions["level"] = Undefined THEN "info" ELSE GivenOptions["level"][1])
  ELSE DefaultsTable[GivenEnv]["level"]

\* the kinds of the sink list, from the same two
GivenKinds ==
  (IF GivenSwitch("enableConsoleLogging") THEN <<"Console">> ELSE <<>>)
  \o (IF GivenSwitch("enableFileLogging")
      THEN (IF GivenSwitch("useDailyRotation")
            THEN <<"RotatedFile">> ELSE <<"CombinedFile">>)
           \o (IF GivenSwitch("separateErrorLog") THEN <<"ErrorFile">> ELSE <<>>)
           \o (IF GivenSwitch("separateWarnLog") THEN <<"WarningFile">> ELSE <<>>)
      ELSE <<>>)

\* the latest call of the sequence came out as a first call with what it was given
AsFirstCall ==
  input.fn = "createLogger" =>
    /\ out.env = input.arg[1]
    /\ out.options = input.arg[2]
    /\ GivenEnv \notin Environment =>
         out.status = "threw" /\ out.error = "Invalid environment: " \o GivenEnv
    /\ GivenEnv \in Environment =>
         \/ out.status = "threw" /\ out.mkdirs = 1 /\ out.errors = 1
         \/ /\ Returned
            /\ out.level = GivenLevel
            /\ Kinds = GivenKinds
            /\ \A k \in DOMAIN DefaultsTable[GivenEnv] \ DOMAIN GivenOptions :
                 Get(out.finalOptions, k) = Some(DefaultsTable[GivenEnv][k])

\* C24: over any sequence of createLogger calls with NODE_ENV and the option object
\* changing between calls, each call resolves its level and its sink list from the
\* environment at the time of the call and its own option object alone, whatever
\* was called before; the call leaves the caller's option object and NODE_ENV as
\* they were, and a later call finds the table rows as the first one did.
C24_CallsIndependent ==
  [][(input' # input \/ out' # out) =>
       /\ options' = options
       /\ nodeEnv' = nodeEnv
       /\ input'.arg = <<nodeEnv, options>>
       /\ AsFirstCall']_vars

\* a production call with { level: 'error' } made after a call that made the
\* directory
C24_Witness ==
  /\ Returned
  /\ input.fn = "createLogger"
  /\ input.arg[1] = Some("production")
  /\ DOMAIN input.arg[2] = {"level"}
  /\ out.level = "error"
  /\ out.mkdirs = 0
  /\ Kinds = <<"RotatedFile", "ErrorFile">>
  /\ nodeEnv = Some("production")
  /\ (Cwd \o <<Sep>> \o <<"l", "o", "g", "s">> \o <<Sep>> \o DefaultLogName) \in DOMAIN fs


\* the operation and the handler a wrapper was given, and the first outcome of the
\* operation
WrappedOperation == input.arg[1]

WrapperHandler == input.arg[2]

FirstOutcome == WrappedOperation[1]

\* String(x) as the language defines it for the values thrown
StringOf(x) ==
  CASE x.type = "string" -> x.str
    [] x.type = "number" /\ x.num = -42 -> "-42"
    [] x.type = "undefined" -> "undefined"
    [] x.type = "null" -> "null"

\* the error of a failure result is the one the claim names for the thrown x
ErrorFor(e, x) ==
  IF WrapperHandler # Undefined
  THEN e = CallHandler(WrapperHandler[1], x)
  ELSE IF x.type = "Error"
       THEN e = x
       ELSE e.type = "Error" /\ e.id = 0 /\ e.str = StringOf(x)

\* C25: tryCatchSync(op, handler) and tryCatch(op, handler) invoke op exactly once;
\* when it returns or resolves with v the result is {success: true, data: v,
\* error: null}; when it throws or rejects with x the result is {success: false,
\* data: null, error: e}, e being handler(x) with a handler, x itself when x is an
\* Error, and otherwise a new Error whose message is String(x).
C25_TryCatchResult ==
  input.fn \in {"tryCatchSync", "tryCatch"} =>
    /\ output.left = Tail(WrappedOperation)
    /\ output.state \in {"returned", "fulfilled"} =>
         IF FirstOutcome.how \in {"returns", "resolves"}
         THEN /\ output.result.success = TRUE
              /\ output.result.data = FirstOutcome.value
              /\ output.result.error = JsNull
         ELSE /\ output.result.success = FALSE
              /\ output.result.data = JsNull
              /\ ErrorFor(output.result.error, FirstOutcome.value)

\* tryCatch of an operation that rejects with -42 and would resolve if invoked
\* again, no handler given: the promise is fulfilled with a new Error('-42')
C25_Witness ==
  /\ input.fn = "tryCatch"
  /\ output.state = "fulfilled"
  /\ WrapperHandler = Undefined
  /\ FirstOutcome.how = "rejects"
  /\ FirstOutcome.value.num = -42
  /\ WrappedOperation[2].how = "resolves"
  /\ output.result.success = FALSE
  /\ output.result.error.type = "Error"
  /\ output.result.error.str = "-42"
  /\ Len(output.left) = MaxInvocations - 1


\* p is below the directory d, at any depth
StrictlyInside(p, d) ==
  IF d = <<Sep>>
  THEN Len(p) > 1 /\ p[1] = Sep
  ELSE /\ Len(p) > Len(d) + 1
       /\ SubSeq(p, 1, Len(d)) = d
       /\ p[Len(d) + 1] = Sep

\* the files of the logger
FileSinks == Sinks({"RotatedFile", "CombinedFile", "ErrorFile", "WarningFile"})

\* the caller named the logger, with whatever string
NameGiven == Get(out.options, "logName") # Undefined

\* C26: whatever logName the caller supplies, the empty string, '..' and names with
\* separators included, logDir lies strictly inside the resolved logDirectory and
\* the path of every file transport names a file directly inside logDir.
C26_LogDirInsideLogDirectory ==
  (Returned /\ NameGiven) =>
    /\ StrictlyInside(DirOf(out.logDir), DirOf(out.finalOptions["logDirectory"][1]))
    /\ \A i \in FileSinks : Parent(out.transports[i].filename[1]) = DirOf(out.logDir)


\* an option object with the field k left out
Without(opts, k) == [x \in DOMAIN opts \ {k} |-> opts[x]]

\* the same call with the field k omitted, made where the directory is there
CallWithout(k) == createLogger(out.env, Without(out.options, k), out.disk, FALSE)

\* the resolved configuration, the engine level and the sink list are those of the
\* call with k omitted
SameAsWithout(k) ==
  /\ CallWithout(k).status = "returned"
  /\ \A x \in OptionKeys :
       Get(out.finalOptions, x) = Get(CallWithout(k).finalOptions, x)
  /\ out.level = CallWithout(k).level
  /\ out.transports = CallWithout(k).transports

\* C27: a field supplied explicitly as undefined yields the same resolved
\* configuration, engine level and sink list as the field omitted.
C27_UndefinedAsOmitted ==
  (Returned /\ out.call.name = "createLogger") =>
    \A k \in DOMAIN out.options : out.options[k] = Undefined => SameAsWithout(k)


\* the call has failed with InvalidEnvironment
InvalidEnvironmentThrown ==
  /\ out.status = "threw"
  /\ out.env # Undefined
  /\ out.error = "Invalid environment: " \o out.env[1]

\* C28: createSimpleLogger(env) with a recognized env argument never fails with
\* InvalidEnvironment, whatever NODE_ENV holds.
C28_SimpleLoggerNeverInvalidEnvironment ==
  (out.call.name = "createSimpleLogger" /\ SimpleEnv \in Environment) =>
    ~InvalidEnvironmentThrown


\* the names a second logger is given
OtherNames == {<<>>, Dot, <<"a">>, <<"a", "/">>, DotDot, <<"b", "/", "c">>}

\* a second createLogger call with the same options but the logName m
CallNamed(m) ==
  createLogger(out.env, Spread(out.options, [x \in {"logName"} |-> Some(m)]), out.disk,
               FALSE)

\* the paths of the file transports among ts
FilePaths(ts) == {ts[i].filename[1] : i \in {j \in DOMAIN ts : SinkKind(ts[j]) \in FileKinds}}

\* C29: two createLogger calls with the same logDirectory and different logName
\* strings have different logDir directories, and no file path of one logger is a
\* file path of the other.
C29_LoggersKeptApart ==
  (Returned /\ out.call.name = "createLogger" /\ NameGiven) =>
    \A m \in OtherNames \ {out.options["logName"][1]} :
      CallNamed(m).status = "returned" =>
        /\ DirOf(CallNamed(m).logDir) # DirOf(out.logDir)
        /\ FilePaths(CallNamed(m).transports) \cap FilePaths(out.transports) = {}


\* the directory both processes were sent to
SharedLogDir == logDirOf(input.arg)

\* C30: when two createLogger invocations for the same logDir interleave their
\* existence checks and directory creations in any order, neither fails because of
\* the other and logDir is a directory once both have finished; a step of one
\* invocation touches nothing of the other but the disk.
C30_InterleavedCallsBothSucceed ==
  [][(input.fn = "createLogger" /\ input' = input) =>
       /\ \A c \in Callers : output'[c].pc # "threw" /\ output'[c].error = ""
       /\ (\A c \in Callers : output'[c].pc = "returned") =>
            SharedLogDir \in DOMAIN fs' /\ fs'[SharedLogDir].dir
       /\ \E c \in Callers : \A d \in Callers \ {c} : output'[d] = output[d]
       /\ \A x \in DOMAIN fs : x \in DOMAIN fs' /\ fs'[x] = fs[x]]_vars

\* both processes found the directory missing, each made one of the two missing
\* directories, and both returned a logger
C30_Witness ==
  /\ input.fn = "createLogger"
  /\ output # NoInput
  /\ \A c \in Callers :
       /\ output[c].pc = "returned"
       /\ ~output[c].saw
       /\ output[c].made = 1
  /\ SharedLogDir \in DOMAIN fs
  /\ fs[SharedLogDir].dir
  /\ fs[SharedLogDir].mode = "0700"

=============================================================================
